---- MODULE Spec2Model ----
(***************************************************************************)
(* Model of the generic regex engine of src/expr/core.rs: the compiler     *)
(* from a CoreExpr tree to an arena-indexed NFA (Matcher::new, expand) and *)
(* the simulator (Matcher::match_sequence), over the character front-end   *)
(* of src/expr/char.rs.                                                    *)
(*                                                                         *)
(* State indices are the zero-based usize indices of the source; the arena *)
(* transition_funcs is a TLA+ sequence, so state i is transition_funcs[i+1]*)
(***************************************************************************)
EXTENDS Integers, Sequences, FiniteSets, TLC

(***************************************************************************)
(* Bounds of the model.                                                    *)
(***************************************************************************)
\* largest number of CoreExpr nodes of a compiled expression tree
MaxNodes == 4
\* longest input sequence handed to match_sequence
MaxStrLen == 4
\* largest number of nodes of a tree that is compiled twice
MaxAgainNodes == 3
\* largest number of nodes of a tree whose closure loop is run step by step
MaxClosureNodes == 3
\* largest number of duration rules of a NoteRule
MaxDurationRules == 2

(***************************************************************************)
(* Terminals and matchers (char.rs).                                       *)
(***************************************************************************)
\* the characters inputs are drawn from
Alphabet == {"a", "b"}

IsAlphabetic(terminal) == terminal \in {"a", "b"}

IsNumeric(terminal) == terminal \in {"1"}

IsWhitespace(terminal) == terminal \in {" "}

\* CharMatcher { rule }
CharMatcher(rule, c) == [rule |-> rule, c |-> c]

\* CharMatcher::matches
Matches(matcher, terminal) ==
    CASE matcher.rule = "Char" -> terminal = matcher.c
      [] matcher.rule = "Alpha" -> IsAlphabetic(terminal)
      [] matcher.rule = "Num" -> IsNumeric(terminal)
      [] matcher.rule = "Whitespace" -> IsWhitespace(terminal)
      [] OTHER -> FALSE

\* the matchers expression trees are built from
Matchers == {CharMatcher("Char", "a"), CharMatcher("Char", "b")}

\* placeholder of the matcher field of the nodes that carry no matcher
NoMatcher == CharMatcher("None", "")

(***************************************************************************)
(* CoreExpr (core.rs): one record shape for the five variants.             *)
(***************************************************************************)
Terminal(m) == [kind |-> "Terminal", m |-> m, exprs |-> <<>>]

Sequence(exprs) == [kind |-> "Sequence", m |-> NoMatcher, exprs |-> exprs]

Choice(exprs) == [kind |-> "Choice", m |-> NoMatcher, exprs |-> exprs]

Repeat(e) == [kind |-> "Repeat", m |-> NoMatcher, exprs |-> <<e>>]

Null == [kind |-> "Null", m |-> NoMatcher, exprs |-> <<>>]

RECURSIVE ExprsOfSize(_)
RECURSIVE ExprListsOfSize(_)

\* the expression trees of exactly n nodes
ExprsOfSize(n) ==
    IF n = 1
    THEN {Null, Sequence(<<>>), Choice(<<>>)} \cup {Terminal(m) : m \in Matchers}
    ELSE {Repeat(e) : e \in ExprsOfSize(n - 1)}
         \cup {Sequence(l) : l \in ExprListsOfSize(n - 1)}
         \cup {Choice(l) : l \in ExprListsOfSize(n - 1)}

\* the non-empty lists of expression trees of n nodes in total
ExprListsOfSize(n) ==
    UNION {{<<e>> \o l : e \in ExprsOfSize(k),
                         l \in (IF k = n THEN {<<>>} ELSE ExprListsOfSize(n - k))}
           : k \in 1..n}

\* the expression trees of at most n nodes
ExprsUpTo(n) == UNION {ExprsOfSize(k) : k \in 1..n}

\* the expression trees the model compiles
Exprs == ExprsUpTo(MaxNodes)

\* the expression trees the model compiles twice
ExprsAgain == ExprsUpTo(MaxAgainNodes)

\* the trees whose closure loop is run step by step
ExprsClosure == ExprsUpTo(MaxClosureNodes)

RECURSIVE StringsOfLen(_)
StringsOfLen(n) ==
    IF n = 0 THEN {<<>>}
    ELSE {Append(s, t) : s \in StringsOfLen(n - 1), t \in Alphabet}

\* the input sequences the model matches
Strings == UNION {StringsOfLen(n) : n \in 0..MaxStrLen}

(***************************************************************************)
(* The automaton (core.rs): TransitionFunc and the arena.                  *)
(***************************************************************************)
\* the empty BTreeMap<usize, &T>
EmptyMap == [state \in {} |-> NoMatcher]

\* TransitionFunc { terminals: BTreeMap::new(), epsilons: BTreeSet::new() }
NewTransitionFunc == [terminals |-> EmptyMap, epsilons |-> {}]

\* BTreeMap::insert: the entry of an existing key is replaced
MapInsert(map, key, value) ==
    [k \in DOMAIN map \cup {key} |-> IF k = key THEN value ELSE map[k]]

\* a state index that indexes the arena without panicking
InArena(funcs, state) == state \in 0..(Len(funcs) - 1)

\* mutant of NewStateIndex: the arena length is read after the push
NewStateIndexAfterPush(funcs) == Len(funcs) + 1

\* the index create_new_state returns: the arena length before the push
NewStateIndex(funcs) == Len(funcs)

\* Matcher::create_new_state, the arena after the push
CreateNewState(funcs) == Append(funcs, NewTransitionFunc)

\* mutant of InsertTerminal: the two states are swapped
InsertTerminalSwapped(funcs, start_state, end_state, matcher) ==
    [funcs EXCEPT ![end_state + 1].terminals =
        MapInsert(@, start_state, matcher)]

\* self.transition_funcs[start_state].terminals.insert(end_state, matcher)
InsertTerminal(funcs, start_state, end_state, matcher) ==
    [funcs EXCEPT ![start_state + 1].terminals =
        MapInsert(@, end_state, matcher)]

\* mutant of InsertEpsilon: the epsilon is recorded in both directions
InsertEpsilonBothWays(funcs, start_state, end_state) ==
    [funcs EXCEPT ![start_state + 1].epsilons = @ \cup {end_state},
                  ![end_state + 1].epsilons = @ \cup {start_state}]

\* self.transition_funcs[start_state].epsilons.insert(end_state)
InsertEpsilon(funcs, start_state, end_state) ==
    [funcs EXCEPT ![start_state + 1].epsilons = @ \cup {end_state}]

\* mutant of InsertRepeatEpsilons: the loop back is missing
InsertRepeatEpsilonsNoLoop(funcs, start_state, end_state) ==
    InsertEpsilon(funcs, start_state, end_state)

\* the two epsilons of the Repeat arm: entry to exit, and the loop back
InsertRepeatEpsilons(funcs, start_state, end_state) ==
    InsertEpsilon(InsertEpsilon(funcs, start_state, end_state),
                  end_state, start_state)

RECURSIVE Expand(_, _, _, _)
RECURSIVE ExpandSequence(_, _, _, _, _)
RECURSIVE ExpandChoice(_, _, _, _, _)

\* Matcher::expand, the arena after expanding expr between the two states
Expand(funcs, expr, start_state, end_state) ==
    CASE expr.kind = "Terminal" ->
            InsertTerminal(funcs, start_state, end_state, expr.m)
      [] expr.kind = "Sequence" ->
            ExpandSequence(funcs, expr.exprs, 1, start_state, end_state)
      [] expr.kind = "Choice" ->
            ExpandChoice(funcs, expr.exprs, 1, start_state, end_state)
      [] expr.kind = "Repeat" ->
            Expand(InsertRepeatEpsilons(funcs, start_state, end_state),
                   expr.exprs[1], start_state, end_state)
      [] expr.kind = "Null" ->
            InsertEpsilon(funcs, start_state, end_state)

\* the loop of the Sequence arm from its i-th element on
ExpandSequence(funcs, exprs, i, prev_state, end_state) ==
    IF i > Len(exprs)
    THEN InsertEpsilon(funcs, prev_state, end_state)
    ELSE LET next_state == NewStateIndex(funcs)
         IN ExpandSequence(
                Expand(CreateNewState(funcs), exprs[i], prev_state, next_state),
                exprs, i + 1, next_state, end_state)

\* the loop of the Choice arm from its i-th element on
ExpandChoice(funcs, exprs, i, start_state, end_state) ==
    IF i > Len(exprs)
    THEN funcs
    ELSE ExpandChoice(Expand(funcs, exprs[i], start_state, end_state),
                      exprs, i + 1, start_state, end_state)

\* the start_state field Matcher::new sets
StartState == 0

\* the end_state field Matcher::new sets
EndState == 1

\* CoreExpr::compile, the arena of the finished automaton
Compile(expr) ==
    Expand(CreateNewState(CreateNewState(<<>>)), expr, StartState, EndState)

(***************************************************************************)
(* The program state.                                                      *)
(***************************************************************************)
VARIABLES
    expr,              \* the CoreExpr tree handed to compile
    transition_funcs,  \* Matcher.transition_funcs, the state arena
    stack,             \* the activation records of expand, innermost last
    string,            \* the argument of the running match_sequence call
    pos,               \* the number of terminals the loop has consumed
    current_states,    \* the active set of the last match_sequence call
    result,            \* the value the last match_sequence call returned
    pc,                \* "new", "expand", "ready", "match", "done", "panic",
                       \* and "extend", "closed" around the closure loop
    earlier,           \* history: an earlier call on the sequence being matched
    repeat_pairs,      \* history: the (entry, exit) pairs of the Repeat nodes
    note_call          \* the last call of NoteMatcher::matches (music.rs)

vars ==
    <<expr, transition_funcs, stack, string, pos, current_states, result, pc,
      earlier, repeat_pairs, note_call>>

(***************************************************************************)
(* The simulator (core.rs, match_sequence).                                *)
(***************************************************************************)
\* TransitionFunc::get_terminal_transitions
GetTerminalTransitions(func, terminal) ==
    {state \in DOMAIN func.terminals : Matches(func.terminals[state], terminal)}

\* mutant of ExtendEpsilons: one pass of the loop, no fixpoint
ExtendEpsilonsOnePass(funcs, states) ==
    states \cup UNION {funcs[state + 1].epsilons : state \in states}

RECURSIVE ExtendEpsilons(_, _)
\* the extend_epsilons closure of match_sequence
ExtendEpsilons(funcs, states) ==
    LET new_states == UNION {funcs[state + 1].epsilons : state \in states}
    IN IF new_states \subseteq states
       THEN states
       ELSE ExtendEpsilons(funcs, states \cup new_states)

\* mutant of InitialStates: the active set of the last call is kept
InitialStatesKept(funcs) == current_states \cup {0}

\* the active set match_sequence starts its loop with: a new set holding 0
InitialStates(funcs) == {0}

\* mutant of ConsumeTerminal: the start state is added again at every terminal
ConsumeTerminalRestart(funcs, states, terminal) ==
    LET next_states ==
            UNION {GetTerminalTransitions(funcs[state + 1], terminal)
                   : state \in states}
    IN ExtendEpsilons(funcs, next_states \cup {StartState})

\* one iteration of the loop of match_sequence on a non-empty active set
ConsumeTerminal(funcs, states, terminal) ==
    LET next_states ==
            UNION {GetTerminalTransitions(funcs[state + 1], terminal)
                   : state \in states}
    IN ExtendEpsilons(funcs, next_states)

\* the value match_sequence returns after its loop
Verdict(states) == EndState \in states

RECURSIVE MatchFrom(_, _, _, _)
\* match_sequence from the i-th terminal on, with the given active set
MatchFrom(funcs, states, str, i) ==
    IF i > Len(str) THEN Verdict(states)
    ELSE IF states = {} THEN FALSE
    ELSE MatchFrom(funcs, ConsumeTerminal(funcs, states, str[i]), str, i + 1)

\* Matcher::match_sequence
MatchSequence(funcs, str) == MatchFrom(funcs, InitialStates(funcs), str, 1)

\* e.compile().match_sequence(str)
Accepts(e, str) == MatchSequence(Compile(e), str)

(***************************************************************************)
(* Initial state: an expression tree, nothing compiled yet.                *)
(***************************************************************************)
\* NoteMatcher::matches has not been called
NoNoteCall == [status |-> "idle"]

\* no earlier call is remembered
NoEarlier ==
    [known |-> FALSE, string |-> <<>>, verdict |-> FALSE, funcs |-> <<>>,
     recompiled |-> FALSE]

\* the locals of a match_sequence call, when none is running
NoCall ==
    /\ string' = <<>>
    /\ pos' = 0
    /\ current_states' = {}
    /\ result' = FALSE

\* mutant of Frame: the Sequence arm's prev_state starts at the exit state
FramePrevAtExit(e, start_state, end_state) ==
    [expr |-> e, start_state |-> start_state, end_state |-> end_state,
     i |-> 0, prev_state |-> end_state]

\* an activation record of expand: i elements of a Sequence or Choice (or the
\* body of a Repeat) are expanded, prev_state is the Sequence arm's local
Frame(e, start_state, end_state) ==
    [expr |-> e, start_state |-> start_state, end_state |-> end_state,
     i |-> 0, prev_state |-> start_state]

Top == stack[Len(stack)]

Pop == SubSeq(stack, 1, Len(stack) - 1)

\* the running activation advanced to its next element, and the call it makes
Call(top, frame) == Append(Append(Pop, top), frame)

\* an index out of the arena, or a failed assertion, ends the program
Panic ==
    /\ pc' = "panic"
    /\ UNCHANGED <<expr, transition_funcs, stack, string, pos, current_states,
                   result, earlier, repeat_pairs, note_call>>

\* one of the given trees is about to be compiled
InitWith(trees) ==
    /\ expr \in trees
    /\ transition_funcs = <<>>
    /\ stack = <<>>
    /\ string = <<>>
    /\ pos = 0
    /\ current_states = {}
    /\ result = FALSE
    /\ pc = "new"
    /\ earlier = NoEarlier
    /\ repeat_pairs = {}
    /\ note_call = NoNoteCall

Init == InitWith(Exprs)

(***************************************************************************)
(* Matcher::new and expand, one action per step of the recursion.          *)
(***************************************************************************)
\* Matcher::new up to its call of expand: the two states and the assertions
NewMatcher ==
    LET funcs0 == <<>>
        start_state == NewStateIndex(funcs0)
        funcs1 == CreateNewState(funcs0)
        end_state == NewStateIndex(funcs1)
        funcs2 == CreateNewState(funcs1)
    IN IF start_state = StartState /\ end_state = EndState
       THEN /\ transition_funcs' = funcs2
            /\ stack' = <<Frame(expr, start_state, end_state)>>
            /\ pc' = "expand"
            /\ NoCall
            /\ UNCHANGED expr
       ELSE /\ pc' = "panic"
            /\ UNCHANGED <<expr, transition_funcs, stack, string, pos,
                           current_states, result>>

\* expr.compile()
New ==
    /\ pc = "new"
    /\ NewMatcher
    /\ repeat_pairs' = {}
    /\ UNCHANGED <<earlier, note_call>>

\* expr.compile() a second time, after a call has returned: the new matcher
\* is then asked about the sequence of that call
Recompile ==
    /\ pc = "done"
    /\ NewMatcher
    /\ earlier' = [known |-> TRUE, string |-> string, verdict |-> result,
                   funcs |-> transition_funcs, recompiled |-> TRUE]
    /\ repeat_pairs' = {}
    /\ UNCHANGED note_call

\* Matcher::new returns the matcher once expand has returned
NewReturn ==
    /\ pc = "expand"
    /\ stack = <<>>
    /\ pc' = "ready"
    /\ UNCHANGED <<expr, transition_funcs, stack, string, pos, current_states,
                   result, earlier, repeat_pairs, note_call>>

\* the Terminal arm
ExpandTerminal ==
    /\ pc = "expand"
    /\ stack # <<>>
    /\ Top.expr.kind = "Terminal"
    /\ IF InArena(transition_funcs, Top.start_state)
       THEN /\ transition_funcs' =
                   InsertTerminal(transition_funcs, Top.start_state,
                                  Top.end_state, Top.expr.m)
            /\ stack' = Pop
            /\ UNCHANGED <<expr, string, pos, current_states, result, pc,
                           earlier, repeat_pairs, note_call>>
       ELSE Panic

\* the Sequence arm, one iteration of its loop up to the recursive call
ExpandSequenceElement ==
    /\ pc = "expand"
    /\ stack # <<>>
    /\ Top.expr.kind = "Sequence"
    /\ Top.i < Len(Top.expr.exprs)
    /\ LET next_state == NewStateIndex(transition_funcs)
       IN /\ transition_funcs' = CreateNewState(transition_funcs)
          /\ stack' = Call([Top EXCEPT !.i = @ + 1, !.prev_state = next_state],
                           Frame(Top.expr.exprs[Top.i + 1], Top.prev_state,
                                 next_state))
    /\ UNCHANGED <<expr, string, pos, current_states, result, pc,
                   earlier, repeat_pairs, note_call>>

\* the Sequence arm after its loop: the epsilon from the last state to the exit
ExpandSequenceEnd ==
    /\ pc = "expand"
    /\ stack # <<>>
    /\ Top.expr.kind = "Sequence"
    /\ Top.i = Len(Top.expr.exprs)
    /\ IF InArena(transition_funcs, Top.prev_state)
       THEN /\ transition_funcs' =
                   InsertEpsilon(transition_funcs, Top.prev_state, Top.end_state)
            /\ stack' = Pop
            /\ UNCHANGED <<expr, string, pos, current_states, result, pc,
                           earlier, repeat_pairs, note_call>>
       ELSE Panic

\* mutant of ExpandChoiceElement: every alternative allocates a state
ExpandChoiceElementFresh ==
    /\ pc = "expand"
    /\ stack # <<>>
    /\ Top.expr.kind = "Choice"
    /\ Top.i < Len(Top.expr.exprs)
    /\ transition_funcs' = CreateNewState(transition_funcs)
    /\ stack' = Call([Top EXCEPT !.i = @ + 1],
                     Frame(Top.expr.exprs[Top.i + 1], Top.start_state,
                           Top.end_state))
    /\ UNCHANGED <<expr, string, pos, current_states, result, pc,
                   earlier, repeat_pairs, note_call>>

\* the Choice arm, one iteration of its loop
ExpandChoiceElement ==
    /\ pc = "expand"
    /\ stack # <<>>
    /\ Top.expr.kind = "Choice"
    /\ Top.i < Len(Top.expr.exprs)
    /\ stack' = Call([Top EXCEPT !.i = @ + 1],
                     Frame(Top.expr.exprs[Top.i + 1], Top.start_state,
                           Top.end_state))
    /\ UNCHANGED <<expr, transition_funcs, string, pos, current_states, result,
                   pc, earlier, repeat_pairs, note_call>>

\* the Choice arm after its loop
ExpandChoiceEnd ==
    /\ pc = "expand"
    /\ stack # <<>>
    /\ Top.expr.kind = "Choice"
    /\ Top.i = Len(Top.expr.exprs)
    /\ stack' = Pop
    /\ UNCHANGED <<expr, transition_funcs, string, pos, current_states, result,
                   pc, earlier, repeat_pairs, note_call>>

\* the Repeat arm up to the recursive call: the two epsilons
ExpandRepeat ==
    /\ pc = "expand"
    /\ stack # <<>>
    /\ Top.expr.kind = "Repeat"
    /\ Top.i = 0
    /\ IF InArena(transition_funcs, Top.start_state)
          /\ InArena(transition_funcs, Top.end_state)
       THEN /\ transition_funcs' =
                   InsertRepeatEpsilons(transition_funcs, Top.start_state,
                                        Top.end_state)
            /\ stack' = Call([Top EXCEPT !.i = 1],
                             Frame(Top.expr.exprs[1], Top.start_state,
                                   Top.end_state))
            /\ repeat_pairs' =
                   repeat_pairs \cup {<<Top.start_state, Top.end_state>>}
            /\ UNCHANGED <<expr, string, pos, current_states, result, pc,
                           earlier, note_call>>
       ELSE Panic

\* the Repeat arm after the recursive call
ExpandRepeatEnd ==
    /\ pc = "expand"
    /\ stack # <<>>
    /\ Top.expr.kind = "Repeat"
    /\ Top.i = 1
    /\ stack' = Pop
    /\ UNCHANGED <<expr, transition_funcs, string, pos, current_states, result,
                   pc, earlier, repeat_pairs, note_call>>

\* the Null arm
ExpandNull ==
    /\ pc = "expand"
    /\ stack # <<>>
    /\ Top.expr.kind = "Null"
    /\ IF InArena(transition_funcs, Top.start_state)
       THEN /\ transition_funcs' =
                   InsertEpsilon(transition_funcs, Top.start_state, Top.end_state)
            /\ stack' = Pop
            /\ UNCHANGED <<expr, string, pos, current_states, result, pc,
                           earlier, repeat_pairs, note_call>>
       ELSE Panic

(***************************************************************************)
(* Matcher::match_sequence, one action per iteration of its loop.          *)
(***************************************************************************)
\* the call, up to the loop: current_states.insert(0); the matcher of a
\* second compilation is asked about the sequence of the earlier call
MatchBegin ==
    /\ pc = "ready"
    /\ \E s \in Strings :
          /\ earlier.known => s = earlier.string
          /\ string' = s
    /\ pos' = 0
    /\ current_states' = InitialStates(transition_funcs)
    /\ result' = FALSE
    /\ pc' = "match"
    /\ UNCHANGED <<expr, transition_funcs, stack,
                   earlier, repeat_pairs, note_call>>

\* the same matcher is called again on the sequence it has just answered
MatchAgain ==
    /\ pc = "done"
    /\ pos' = 0
    /\ current_states' = InitialStates(transition_funcs)
    /\ result' = FALSE
    /\ pc' = "match"
    /\ earlier' = [known |-> TRUE, string |-> string, verdict |-> result,
                   funcs |-> transition_funcs,
                   recompiled |-> earlier.recompiled]
    /\ UNCHANGED <<repeat_pairs, note_call>>
    /\ UNCHANGED <<expr, transition_funcs, stack, string>>

\* the early return of the loop on an empty active set
MatchDead ==
    /\ pc = "match"
    /\ pos < Len(string)
    /\ current_states = {}
    /\ result' = FALSE
    /\ pc' = "done"
    /\ UNCHANGED <<expr, transition_funcs, stack, string, pos, current_states,
                   earlier, repeat_pairs, note_call>>

\* one iteration of the loop: the terminal transitions, then extend_epsilons
MatchTerminal ==
    /\ pc = "match"
    /\ pos < Len(string)
    /\ current_states # {}
    /\ IF \A state \in current_states : InArena(transition_funcs, state)
       THEN /\ current_states' =
                   ConsumeTerminal(transition_funcs, current_states,
                                   string[pos + 1])
            /\ pos' = pos + 1
            /\ UNCHANGED <<expr, transition_funcs, stack, string, result, pc,
                           earlier, repeat_pairs, note_call>>
       ELSE Panic

\* the return after the loop: current_states.contains(&self.end_state)
MatchReturn ==
    /\ pc = "match"
    /\ pos = Len(string)
    /\ result' = Verdict(current_states)
    /\ pc' = "done"
    /\ UNCHANGED <<expr, transition_funcs, stack, string, pos, current_states,
                   earlier, repeat_pairs, note_call>>

\* the caller takes the verdict and goes on to other sequences
Resume ==
    /\ pc = "done"
    /\ pc' = "ready"
    /\ earlier' = NoEarlier
    /\ NoCall
    /\ UNCHANGED <<repeat_pairs, note_call>>
    /\ UNCHANGED <<expr, transition_funcs, stack>>

Next ==
    \/ New
    \/ NewReturn
    \/ ExpandTerminal
    \/ ExpandSequenceElement
    \/ ExpandSequenceEnd
    \/ ExpandChoiceElement
    \/ ExpandChoiceEnd
    \/ ExpandRepeat
    \/ ExpandRepeatEnd
    \/ ExpandNull
    \/ MatchBegin
    \/ MatchDead
    \/ MatchTerminal
    \/ MatchReturn
    \/ Resume

Spec == Init /\ [][Next]_vars

(***************************************************************************)
(* The same program with repeated calls and a second compilation: the      *)
(* history variable earlier remembers the verdict of the first call.       *)
(***************************************************************************)
InitAgain == InitWith(ExprsAgain)

NextAgain ==
    \/ Next
    \/ MatchAgain
    \/ Recompile

SpecAgain == InitAgain /\ [][NextAgain]_vars

(***************************************************************************)
(* The closure loop of extend_epsilons, one action per iteration, applied  *)
(* to every set of states of the compiled automaton.                       *)
(***************************************************************************)
\* the epsilon successors one iteration of the loop collects
NewStates(funcs, states) ==
    UNION {funcs[state + 1].epsilons : state \in states}

\* mutant of ExtendDone: the loop ends when the two sets are equal
ExtendDoneOnEqual(new_states, states) == new_states = states

\* the test that ends the loop: new_states.is_subset(states)
ExtendDone(new_states, states) == new_states \subseteq states

\* extend_epsilons is called on a set of states of the arena
ExtendCall ==
    /\ pc = "ready"
    /\ \E states \in SUBSET (0..(Len(transition_funcs) - 1)) :
           current_states' = states
    /\ pc' = "extend"
    /\ UNCHANGED <<expr, transition_funcs, stack, string, pos, result,
                   earlier, repeat_pairs, note_call>>

\* one iteration of the loop that does not break: states.extend(new_states)
ExtendLoop ==
    /\ pc = "extend"
    /\ LET new_states == NewStates(transition_funcs, current_states)
       IN /\ ~ExtendDone(new_states, current_states)
          /\ current_states' = current_states \cup new_states
    /\ UNCHANGED <<expr, transition_funcs, stack, string, pos, result, pc,
                   earlier, repeat_pairs, note_call>>

\* the iteration that breaks
ExtendBreak ==
    /\ pc = "extend"
    /\ ExtendDone(NewStates(transition_funcs, current_states), current_states)
    /\ pc' = "closed"
    /\ UNCHANGED <<expr, transition_funcs, stack, string, pos, current_states,
                   result, earlier, repeat_pairs, note_call>>

\* the caller takes the closed set
ExtendReturn ==
    /\ pc = "closed"
    /\ pc' = "ready"
    /\ current_states' = {}
    /\ UNCHANGED <<expr, transition_funcs, stack, string, pos, result,
                   earlier, repeat_pairs, note_call>>

InitClosure == InitWith(ExprsClosure)

NextClosure ==
    \/ Next
    \/ ExtendCall
    \/ ExtendLoop
    \/ ExtendBreak
    \/ ExtendReturn

SpecClosure == InitClosure /\ [][NextClosure]_vars

\* a loop that is running takes its next iteration, and a call of
\* match_sequence that is running takes its next step
SpecClosureFair ==
    /\ SpecClosure
    /\ WF_vars(ExtendLoop)
    /\ WF_vars(ExtendBreak)
    /\ WF_vars(MatchDead \/ MatchTerminal \/ MatchReturn)

(***************************************************************************)
(* The musical front-end (music.rs): NoteMatcher::matches, one action per  *)
(* duration rule the second any() visits.  The arithmetic is that of u8:   *)
(* an overflow panics in a debug build and wraps in a release build.       *)
(***************************************************************************)
\* the largest u8, the type of Note.duration and of as_ticks
U8Max == 255

\* the two builds of the crate
Builds == {"debug", "release"}

\* the value that stands for a panic of the arithmetic
Overflow == -1

\* a * b in u8
U8Mul(a, b, build) ==
    IF a * b <= U8Max THEN a * b
    ELSE IF build = "debug" THEN Overflow
    ELSE (a * b) % (U8Max + 1)

Durations ==
    {"Whole", "Half", "Third", "Quarter", "Sixth", "Eighth", "Twelfth",
     "Sixteenth", "TwentyFourth", "ThirtySecond", "FortyEighth", "SixtyFourth"}

\* Duration::as_ticks
AsTicks(duration) ==
    CASE duration = "Whole" -> 192
      [] duration = "Half" -> 96
      [] duration = "Third" -> 64
      [] duration = "Quarter" -> 48
      [] duration = "Sixth" -> 32
      [] duration = "Eighth" -> 24
      [] duration = "Twelfth" -> 16
      [] duration = "Sixteenth" -> 12
      [] duration = "TwentyFourth" -> 8
      [] duration = "ThirtySecond" -> 6
      [] duration = "FortyEighth" -> 4
      [] duration = "SixtyFourth" -> 3

\* the interval amounts the interval rules are drawn from
IntervalAmounts == {"Unison", "MajorSecond"}

\* IntervalAmount::as_half_steps
AsHalfSteps(interval) ==
    CASE interval = "Unison" -> 0
      [] interval = "MinorSecond" -> 1
      [] interval = "MajorSecond" -> 2
      [] interval = "MinorThird" -> 3
      [] interval = "MajorThird" -> 4
      [] interval = "PerfectFourth" -> 5
      [] interval = "Tritone" -> 6
      [] interval = "PerfectFifth" -> 7
      [] interval = "MinorSixth" -> 8
      [] interval = "MajorSixth" -> 9
      [] interval = "MinorSeventh" -> 10
      [] interval = "MajorSeventh" -> 11
      [] interval = "Octave" -> 12

\* NoteEvent: Interval(i8), Rest, Last
NoteEvents ==
    {[kind |-> "Interval", amount |-> 2], [kind |-> "Rest", amount |-> 0]}

\* IntervalRule: Any, Up(amount), Down(amount), Rest, Last
IntervalRules ==
    {[kind |-> k, interval |-> "Unison"] : k \in {"Any", "Rest", "Last"}}
    \cup {[kind |-> k, interval |-> i] :
             k \in {"Up", "Down"}, i \in IntervalAmounts}

\* the interval lists of a NoteRule: none or one rule
IntervalRuleLists == {<<>>} \cup {<<rule>> : rule \in IntervalRules}

\* one arm of the first closure of matches
IntervalRuleMatches(rule, event) ==
    CASE rule.kind = "Any" -> TRUE
      [] rule.kind = "Up" ->
            event.kind = "Interval"
            /\ AsHalfSteps(rule.interval) = event.amount
      [] rule.kind = "Down" ->
            event.kind = "Interval"
            /\ -AsHalfSteps(rule.interval) = event.amount
      [] rule.kind = "Rest" -> event.kind = "Rest"
      [] rule.kind = "Last" -> event.kind = "Last"

\* self.rule.interval.iter().any(...)
AnyIntervalRuleMatches(rules, event) ==
    \E i \in 1..Len(rules) : IntervalRuleMatches(rules[i], event)

\* DurationRule: Any, Exact(d), MultipleOf(d), DoublingOf(d),
\* ExactPlusMultipleOf(d, multiple)
DurationRules ==
    {[kind |-> "Any", duration |-> "Whole", multiple |-> "Whole"]}
    \cup {[kind |-> k, duration |-> d, multiple |-> "Whole"] :
             k \in {"Exact", "MultipleOf", "DoublingOf"}, d \in Durations}
    \cup {[kind |-> "ExactPlusMultipleOf", duration |-> d, multiple |-> m] :
             d \in Durations, m \in Durations}

\* terminal.duration % modulus == 0, a panic when the modulus is no u8 or zero
IsMultiple(duration, modulus) ==
    IF modulus = Overflow \/ modulus = 0 THEN "panic"
    ELSE IF duration % modulus = 0 THEN "true" ELSE "false"

\* one arm of the second closure of matches: "true", "false" or "panic"
DurationRuleMatches(rule, duration, build) ==
    CASE rule.kind = "Any" -> "true"
      [] rule.kind = "Exact" ->
            IF duration = AsTicks(rule.duration) THEN "true" ELSE "false"
      [] rule.kind = "MultipleOf" ->
            IsMultiple(duration, AsTicks(rule.duration))
      [] rule.kind = "DoublingOf" ->
            IsMultiple(duration, U8Mul(AsTicks(rule.duration), 2, build))
      [] rule.kind = "ExactPlusMultipleOf" ->
            IF duration = AsTicks(rule.duration) THEN "true"
            ELSE IsMultiple(duration, AsTicks(rule.multiple))

\* no duration rule is being visited
NoDurationRule == [kind |-> "None", duration |-> "Whole", multiple |-> "Whole"]

\* matches is called: the first any(), and the && that follows it
NoteCall ==
    /\ note_call.status = "idle"
    /\ \E event \in NoteEvents, duration \in 0..U8Max, build \in Builds,
          rules \in IntervalRuleLists :
           note_call' =
               [status |-> IF AnyIntervalRuleMatches(rules, event)
                           THEN "durations" ELSE "returned",
                event |-> event, duration |-> duration, build |-> build,
                interval |-> rules, visited |-> 0,
                rule |-> NoDurationRule,
                verdict |-> "false"]
    /\ UNCHANGED <<expr, transition_funcs, stack, string, pos, current_states,
                   result, pc, earlier, repeat_pairs>>

\* the second any() visits the next duration rule of the list
NoteDurationRule ==
    /\ note_call.status = "durations"
    /\ note_call.visited < MaxDurationRules
    /\ \E rule \in DurationRules :
           LET verdict ==
                   DurationRuleMatches(rule, note_call.duration,
                                       note_call.build)
           IN note_call' =
                  [note_call EXCEPT
                      !.status = IF verdict = "panic" THEN "panicked"
                                 ELSE "visited",
                      !.visited = @ + 1,
                      !.rule = rule,
                      !.verdict = verdict]
    /\ UNCHANGED <<expr, transition_funcs, stack, string, pos, current_states,
                   result, pc, earlier, repeat_pairs>>

\* any() returns at the first rule that holds, and goes on after the others
NoteDurationNext ==
    /\ note_call.status = "visited"
    /\ note_call' =
           IF note_call.verdict = "true"
           THEN [note_call EXCEPT !.status = "returned"]
           ELSE [note_call EXCEPT !.status = "durations",
                                  !.rule = NoDurationRule]
    /\ UNCHANGED <<expr, transition_funcs, stack, string, pos, current_states,
                   result, pc, earlier, repeat_pairs>>

\* the list of duration rules is exhausted: matches returns false
NoteDurationsEnd ==
    /\ note_call.status = "durations"
    /\ note_call' = [note_call EXCEPT !.status = "returned",
                                      !.verdict = "false"]
    /\ UNCHANGED <<expr, transition_funcs, stack, string, pos, current_states,
                   result, pc, earlier, repeat_pairs>>

\* the caller takes the verdict
NoteReturn ==
    /\ note_call.status = "returned"
    /\ note_call' = NoNoteCall
    /\ UNCHANGED <<expr, transition_funcs, stack, string, pos, current_states,
                   result, pc, earlier, repeat_pairs>>

InitNote == InitWith({Null})

NextNote ==
    \/ NoteCall
    \/ NoteDurationRule
    \/ NoteDurationNext
    \/ NoteDurationsEnd
    \/ NoteReturn

SpecNote == InitNote /\ [][NextNote]_vars

(***************************************************************************)
(* Type correctness, and agreement of the actions with the operators.      *)
(***************************************************************************)
TypeOK ==
    /\ expr \in Exprs
    /\ string \in Strings
    /\ pos \in 0..Len(string)
    /\ result \in BOOLEAN
    /\ pc \in {"new", "expand", "ready", "match", "done", "panic", "extend",
              "closed"}
    /\ earlier.known \in BOOLEAN

\* a matcher has been built and returned by Matcher::new
Compiled == pc \in {"ready", "match", "done"}

\* the stepwise compilation builds the arena Compile computes
CompileAgrees == Compiled => transition_funcs = Compile(expr)

\* the stepwise simulation returns the value MatchSequence computes
MatchAgrees == pc = "done" => result = MatchSequence(transition_funcs, string)

(***************************************************************************)
(* The claims.                                                             *)
(***************************************************************************)
\* a call of match_sequence on the compiled tree has returned
Returned == pc = "done"

\* the two-element Choice or Sequence the tree is, when it is one
IsPair(kind) == expr.kind = kind /\ Len(expr.exprs) = 2

\* str repeated n times
RECURSIVE Repeated(_, _)
Repeated(str, n) == IF n = 0 THEN <<>> ELSE str \o Repeated(str, n - 1)

\* C1: match_sequence on compile(Choice([e0, e1])) returns true exactly when
\* match_sequence on compile(e0) or on compile(e1) returns true for the same
\* sequence, in particular for two Terminal nodes with different matchers.
ChoiceIsUnion ==
    Returned /\ IsPair("Choice") =>
        result = (Accepts(expr.exprs[1], string) \/ Accepts(expr.exprs[2], string))

\* C2: match_sequence on compile(Repeat(e)) returns true for the empty sequence.
RepeatAcceptsEmpty ==
    Returned /\ expr.kind = "Repeat" /\ string = <<>> => result = TRUE

\* C3: match_sequence on compile(Null) returns true for the empty sequence and
\* false for every non-empty sequence.
NullAcceptsOnlyEmpty ==
    Returned /\ expr = Null => result = (string = <<>>)

\* C4: match_sequence on compile(Sequence([e0, e1])) returns true exactly when
\* the sequence splits into a prefix compile(e0) accepts and a suffix
\* compile(e1) accepts.
SequenceIsConcatenation ==
    Returned /\ IsPair("Sequence") =>
        result = (\E k \in 0..Len(string) :
                      /\ Accepts(expr.exprs[1], SubSeq(string, 1, k))
                      /\ Accepts(expr.exprs[2], SubSeq(string, k + 1, Len(string))))

\* C5: match_sequence on compile(Terminal(m)) returns true exactly when the
\* sequence is one terminal that m matches; it rejects the empty sequence and
\* every sequence of two or more terminals.
TerminalMatchesOne ==
    Returned /\ expr.kind = "Terminal" =>
        result = (Len(string) = 1 /\ Matches(expr.m, string[1]))

\* C5 happens: a Terminal tree has accepted a sequence of one terminal.
TerminalMatchesOneWitness ==
    Returned /\ expr.kind = "Terminal" /\ Len(string) = 1 /\ result = TRUE

\* the sequence is n >= 1 copies of a non-empty sequence compile(e) accepts
IsRepetitionOf(e, str) ==
    \E n \in 1..Len(str) : \E k \in 1..Len(str) :
        /\ str = Repeated(SubSeq(str, 1, k), n)
        /\ Accepts(e, SubSeq(str, 1, k))

\* C6: for every non-empty sequence s that compile(e) accepts and every
\* n >= 1, match_sequence on compile(Repeat(e)) returns true for s repeated n
\* times.
RepeatIsClosed ==
    Returned /\ expr.kind = "Repeat" /\ IsRepetitionOf(expr.exprs[1], string) =>
        result = TRUE

\* C6 happens: a Repeat has accepted two copies of a two-terminal sequence
\* its body accepts.
RepeatIsClosedWitness ==
    /\ Returned
    /\ expr.kind = "Repeat"
    /\ expr.exprs[1].kind = "Sequence"
    /\ Len(string) = 4
    /\ string = Repeated(SubSeq(string, 1, 2), 2)
    /\ Accepts(expr.exprs[1], SubSeq(string, 1, 2))
    /\ result = TRUE

\* the tree is Repeat(Choice([Terminal(m0), Terminal(m1)]))
IsRepeatOfChoiceOfTerminals ==
    /\ expr.kind = "Repeat"
    /\ expr.exprs[1].kind = "Choice"
    /\ Len(expr.exprs[1].exprs) = 2
    /\ expr.exprs[1].exprs[1].kind = "Terminal"
    /\ expr.exprs[1].exprs[2].kind = "Terminal"

\* C7: match_sequence on compile(Repeat(Choice([Terminal(m0), Terminal(m1)])))
\* returns true exactly when every terminal of the sequence is matched by m0
\* or by m1.
RepeatOfChoice ==
    Returned /\ IsRepeatOfChoiceOfTerminals =>
        result = (\A i \in 1..Len(string) :
                      \/ Matches(expr.exprs[1].exprs[1].m, string[i])
                      \/ Matches(expr.exprs[1].exprs[2].m, string[i]))

\* every state index the arena stores indexes the arena
ValidTargets(funcs) ==
    \A i \in 1..Len(funcs) :
        /\ \A state \in DOMAIN funcs[i].terminals : InArena(funcs, state)
        /\ \A state \in funcs[i].epsilons : InArena(funcs, state)

\* C8: compilation and matching never fail: the assertions of Matcher::new
\* hold (the first two states are start = 0 and end = 1), every state index
\* stored as a transition target or held in the active set indexes the arena,
\* and a running match_sequence call always has a next step up to its
\* boolean return.
NeverFails ==
    /\ pc # "panic"
    /\ pc # "new" => InArena(transition_funcs, StartState)
                     /\ InArena(transition_funcs, EndState)
    /\ ValidTargets(transition_funcs)
    /\ \A state \in current_states : InArena(transition_funcs, state)
    /\ pc = "match" => ENABLED (MatchDead \/ MatchTerminal \/ MatchReturn)
    /\ result \in BOOLEAN

\* C8 happens: a tree with fresh states and an epsilon cycle is compiled and
\* a call on a sequence of two or more terminals has returned true.
NeverFailsWitness ==
    /\ Returned
    /\ Len(transition_funcs) > 2
    /\ \E i \in 1..Len(transition_funcs) :
           \E state \in transition_funcs[i].epsilons :
               i - 1 \in transition_funcs[state + 1].epsilons
    /\ Len(string) >= 2
    /\ result = TRUE

\* C9: compiling the same tree twice yields the same automaton and verdict,
\* and calling match_sequence again on one automaton leaves the automaton
\* unchanged and returns the verdict the earlier call on the same sequence
\* returned.
Idempotent ==
    Returned /\ earlier.known =>
        /\ string = earlier.string
        /\ result = earlier.verdict
        /\ transition_funcs = earlier.funcs

\* C9 happens: after a second compilation a call has returned true on the
\* sequence of an earlier call.
IdempotentWitness ==
    /\ Returned
    /\ earlier.known
    /\ earlier.recompiled
    /\ Len(string) >= 2
    /\ result = TRUE

\* C10: the active set match_sequence holds before it consumes the first
\* terminal is the epsilon-closure of {start}, not just {start}.
InitialSetIsClosure ==
    pc = "match" /\ pos = 0 =>
        current_states = ExtendEpsilons(transition_funcs, {StartState})

RECURSIVE InLanguage(_, _)
RECURSIVE InConcatenation(_, _, _)

\* the standard reading of an expression tree: Terminal is one matched
\* terminal, Sequence is concatenation, Choice is union, Repeat is zero or
\* more repetitions of its own body, Null is the empty sequence
InLanguage(e, str) ==
    CASE e.kind = "Terminal" -> Len(str) = 1 /\ Matches(e.m, str[1])
      [] e.kind = "Sequence" -> InConcatenation(e.exprs, 1, str)
      [] e.kind = "Choice" ->
            \E i \in 1..Len(e.exprs) : InLanguage(e.exprs[i], str)
      [] e.kind = "Repeat" ->
            \/ str = <<>>
            \/ \E k \in 1..Len(str) :
                   /\ InLanguage(e.exprs[1], SubSeq(str, 1, k))
                   /\ InLanguage(e, SubSeq(str, k + 1, Len(str)))
      [] e.kind = "Null" -> str = <<>>

\* str is in the concatenation of the languages of exprs[i], exprs[i+1], ...
InConcatenation(exprs, i, str) ==
    IF i > Len(exprs)
    THEN str = <<>>
    ELSE \E k \in 0..Len(str) :
             /\ InLanguage(exprs[i], SubSeq(str, 1, k))
             /\ InConcatenation(exprs, i + 1, SubSeq(str, k + 1, Len(str)))

\* C11: the compiled automaton never over-accepts: a sequence match_sequence
\* accepts is in the language of the tree under the standard reading; the
\* loop-back epsilon of a Repeat does not let the other alternatives of an
\* enclosing Choice be repeated.
NeverOverAccepts == Returned /\ result = TRUE => InLanguage(expr, string)

\* C12: during compilation transitions are only ever added: a terminal-
\* transition (source, target, matcher) or epsilon-transition (source, target)
\* that expand has recorded is still there, with the same matcher, after every
\* later step of expand.
TransitionsAreKept ==
    [][pc = "expand" =>
          \A i \in 1..Len(transition_funcs) :
              /\ i <= Len(transition_funcs')
              /\ transition_funcs[i].epsilons \subseteq transition_funcs'[i].epsilons
              /\ \A state \in DOMAIN transition_funcs[i].terminals :
                     /\ state \in DOMAIN transition_funcs'[i].terminals
                     /\ transition_funcs'[i].terminals[state] =
                            transition_funcs[i].terminals[state]]_vars

RECURSIVE ScanFrom(_, _, _, _)
\* the loop of match_sequence without its early return: the verdict after
\* every terminal from the i-th on is consumed
ScanFrom(funcs, states, str, i) ==
    IF i > Len(str) THEN Verdict(states)
    ELSE ScanFrom(funcs, ConsumeTerminal(funcs, states, str[i]), str, i + 1)

\* C15: an empty active set stays empty for every further terminal and the
\* verdict is false: the early return of match_sequence gives the verdict that
\* scanning the rest of the input would give.
DeadStaysDead ==
    /\ Compiled =>
           \A terminal \in Alphabet :
               ConsumeTerminal(transition_funcs, {}, terminal) = {}
    /\ pc \in {"match", "done"} /\ current_states = {} =>
           /\ ScanFrom(transition_funcs, {}, string, pos + 1) = FALSE
           /\ Returned => result = FALSE

\* C15 happens: match_sequence has returned early, on an empty active set
\* with two or more terminals not consumed.
DeadStaysDeadWitness ==
    /\ Returned
    /\ current_states = {}
    /\ pos + 2 <= Len(string)
    /\ result = FALSE

\* the automaton of Null: one epsilon from start to end, nothing else
NullAutomaton ==
    <<[terminals |-> EmptyMap, epsilons |-> {EndState}], NewTransitionFunc>>

\* C17: compile(Sequence([])) builds the automaton of compile(Null): two
\* states, one epsilon from start to end, no fresh state and no terminal-
\* transition; both give the same verdict on every sequence.
EmptySequenceIsNull ==
    expr = Sequence(<<>>) =>
        /\ Compiled => /\ transition_funcs = NullAutomaton
                       /\ transition_funcs = Compile(Null)
        /\ Returned => result = Accepts(Null, string)

\* C17 happens: a call on the compiled empty Sequence has returned.
EmptySequenceIsNullWitness ==
    /\ Returned
    /\ expr = Sequence(<<>>)
    /\ transition_funcs = NullAutomaton
    /\ Len(string) >= 1

RECURSIVE SequenceElements(_)
RECURSIVE SequenceElementsOf(_, _)
\* the number of elements of all the Sequence nodes of a tree
SequenceElements(e) ==
    (IF e.kind = "Sequence" THEN Len(e.exprs) ELSE 0)
    + SequenceElementsOf(e.exprs, 1)

\* the same, summed over the trees of a list from the i-th on
SequenceElementsOf(exprs, i) ==
    IF i > Len(exprs) THEN 0
    ELSE SequenceElements(exprs[i]) + SequenceElementsOf(exprs, i + 1)

\* C18: the arena is append-only and dense: a step of the compilation leaves
\* its length or appends one empty state whose index is the length before,
\* leaving the states before it as they are, and the finished automaton has 2
\* states plus one for every element of every Sequence node.
ArenaIsAppendOnly ==
    [][/\ pc = "expand" =>
              \/ Len(transition_funcs') = Len(transition_funcs)
              \/ /\ transition_funcs' = Append(transition_funcs, NewTransitionFunc)
                 /\ stack'[Len(stack')].end_state = Len(transition_funcs)
       /\ pc' = "ready" =>
              Len(transition_funcs') = 2 + SequenceElements(expr')]_vars

\* C18 happens: a tree with a Sequence inside another node is compiled, and
\* its arena has the states the count gives.
ArenaIsAppendOnlyWitness ==
    /\ pc = "ready"
    /\ expr.kind # "Sequence"
    /\ SequenceElements(expr) >= 2
    /\ Len(transition_funcs) = 2 + SequenceElements(expr)

\* the states of the arena
ArenaStates(funcs) == 0..(Len(funcs) - 1)

\* a set of states that holds the epsilon successors of its members
EpsilonClosed(funcs, states) ==
    \A state \in states : funcs[state + 1].epsilons \subseteq states

\* C13: extend_epsilons applied to a set S leaves exactly the states reachable
\* from S by zero or more epsilon-transitions: the result holds S, is closed
\* under epsilon successors, and is inside every closed set that holds S.
ClosureIsReachability ==
    /\ pc = "ready" =>
           \A S \in SUBSET ArenaStates(transition_funcs) :
               LET closure == ExtendEpsilons(transition_funcs, S)
               IN /\ S \subseteq closure
                  /\ EpsilonClosed(transition_funcs, closure)
                  /\ \A other \in SUBSET ArenaStates(transition_funcs) :
                         S \subseteq other
                         /\ EpsilonClosed(transition_funcs, other)
                         => closure \subseteq other
    /\ pc = "match" /\ pos > 0 =>
           EpsilonClosed(transition_funcs, current_states)

\* C13 happens: after a terminal the active set holds a state that is two
\* epsilon-transitions away from the target of the terminal-transition.
ClosureIsReachabilityWitness ==
    /\ pc = "match"
    /\ pos > 0
    /\ \E state \in current_states :
           LET targets ==
                   UNION {GetTerminalTransitions(transition_funcs[s + 1],
                                                 string[pos])
                          : s \in ArenaStates(transition_funcs)}
               one_step ==
                   targets \cup UNION {transition_funcs[s + 1].epsilons
                                       : s \in targets}
           IN targets # {} /\ state \notin one_step

\* a state that an epsilon path of one or more transitions leads back to
OnEpsilonCycle(funcs, state) ==
    state \in ExtendEpsilons(funcs, funcs[state + 1].epsilons)

\* C14: the closure loop terminates on every compiled automaton and every
\* starting set, epsilon cycles included, and a call of match_sequence that
\* has started returns.
ClosureTerminates ==
    /\ (pc = "extend") ~> (pc = "closed")
    /\ (pc = "match") ~> (pc = "done")

\* C14 happens: the loop has run to its break on the automaton of a Repeat
\* of a Repeat, whose epsilons form a cycle, and has added states.
ClosureTerminatesWitness ==
    /\ pc = "closed"
    /\ expr.kind = "Repeat"
    /\ expr.exprs[1].kind = "Repeat"
    /\ Cardinality(current_states) >= 2
    /\ \E state \in current_states : OnEpsilonCycle(transition_funcs, state)

RECURSIVE HasRepeat(_)
\* the tree has a Repeat node
HasRepeat(e) ==
    \/ e.kind = "Repeat"
    \/ \E i \in 1..Len(e.exprs) : HasRepeat(e.exprs[i])

\* the arena without the loop-back epsilons (exit to entry) of the Repeat
\* nodes that were expanded
WithoutLoopBacks(funcs, pairs) ==
    [i \in 1..Len(funcs) |->
        [funcs[i] EXCEPT !.epsilons =
            {state \in @ : <<state, i - 1>> \notin pairs}]]

\* C16: the epsilon graph of a tree with no Repeat node is acyclic, and every
\* epsilon cycle of a compiled automaton passes through the entry and exit of
\* a Repeat node: without the loop-back epsilons of the Repeat nodes no state
\* is on an epsilon cycle.
EpsilonCyclesAreRepeats ==
    pc = "ready" =>
        /\ ~HasRepeat(expr) =>
               \A state \in ArenaStates(transition_funcs) :
                   ~OnEpsilonCycle(transition_funcs, state)
        /\ \A state \in ArenaStates(transition_funcs) :
               ~OnEpsilonCycle(WithoutLoopBacks(transition_funcs, repeat_pairs),
                               state)
        /\ repeat_pairs # {} => HasRepeat(expr)

\* C16 happens: a compiled automaton has an epsilon cycle through a state a
\* Sequence allocated, and the tree has a Repeat node.
EpsilonCyclesAreRepeatsWitness ==
    /\ pc = "ready"
    /\ HasRepeat(expr)
    /\ \E state \in ArenaStates(transition_funcs) :
           state >= 2 /\ OnEpsilonCycle(transition_funcs, state)

\* C19: NoteMatcher::matches computes every duration rule without 8-bit
\* overflow, for every Duration and every note duration in 0..255, and
\* DoublingOf(d) accepts a duration exactly when it is a multiple of twice the
\* tick value of d, d = Whole (192 ticks, doubled 384) included.
DurationRulesDoNotOverflow ==
    /\ note_call.status # "panicked"
    /\ note_call.status # "idle" /\ note_call.rule.kind = "DoublingOf" =>
           (note_call.verdict = "true") <=>
               (note_call.duration % (2 * AsTicks(note_call.rule.duration)) = 0)

====
